---- MODULE Spec2Model ----
(***************************************************************************)
(* The document processing queue of the DMS (dms.document.processing.queue)*)
(* as a state machine: admission (add_documents_to_queue), the dispatch    *)
(* cycle (_cron_process_queue), one attempt (action_process), the operator *)
(* actions (action_cancel, action_retry) and the audit log                 *)
(* (dms.ai.classification.log); and the stored retention fields of a      *)
(* document (documents.document) under writes on the document and on its   *)
(* retention policy (documents.retention.policy).                          *)
(*                                                                         *)
(* queue and logs are the tables as the running transaction sees them;     *)
(* dbQueue and dbLogs are the tables as last committed.  Operations run    *)
(* one after the other (one transaction at a time); a dispatch cycle and   *)
(* an on-demand attempt are split at the provider call, where time may     *)
(* pass and the process may crash.  Where a second request runs at the     *)
(* same time (CancelInFlight, WorkerProcess) it has a transaction of its   *)
(* own and sees the committed tables.                                      *)
(*                                                                         *)
(* Of an entry's fields the model keeps those the queue reads again.  The  *)
(* time stamps started_date and completed_date and the text of             *)
(* result_message are written and never read; they are left out, and       *)
(* error_message is kept as a flag (set or not).                           *)
(***************************************************************************)
EXTENDS Integers, Sequences, FiniteSets, TLC

VARIABLES
    queue,           \* Seq of queue entries, index = record id, as the transaction sees them
    logs,            \* Seq of audit log entries, index = record id
    dbQueue,         \* queue as last committed
    dbLogs,          \* logs as last committed
    active,          \* set of services whose active flag is set
    now,             \* fields.Datetime.now(), in minutes
    pc,              \* "idle" | "loop" (inside _cron_process_queue) | "call" (inside classify_document)
    mode,            \* "none" | "cron" | "button": who runs action_process
    items,           \* the entries the cycle selected and has not yet reached
    cur,             \* the entry whose attempt is in flight (0: none)
    limit,           \* batch limit of the running cycle (0: none)
    snapshot,        \* history: the time and the queue when the running cycle selected
    dispatched,      \* history: the entries the running cycle has attempted, in order
    admission,       \* history: the call of add_documents_to_queue, if the last step was one
    returned,        \* history: what _cron_process_queue returned, if the last step was its return
    worker,          \* an attempt that another request runs at the same time (NoWorker: none)
    document,        \* a documents.document record: its dates, its policy, its stored retention fields
    policy,          \* the documents.retention.policy record (NoPolicy: deleted)
    today,           \* fields.Date.today()
    rejected,        \* history: the policy values whose save raised ValidationError, if the last step was one
    tags,            \* Seq of documents.tag names, index = record id, in the order search returns them
    applyCall        \* history: the call of apply_classification, if the last step made one

retentionVars == <<document, policy, today, rejected>>

queueVars == <<queue, logs, dbQueue, dbLogs, active, now, pc, mode, items, cur, limit,
               snapshot, dispatched, admission, returned, worker>>

applierVars == <<tags, applyCall>>

vars == <<queueVars, retentionVars, applierVars>>

-----------------------------------------------------------------------------
(* Bounds of the model *)
MaxLogs == 3            \* audit log entries, in the life of one entry
MaxTicks == 3           \* clock steps, in the life of one entry
AttemptsCap == 4        \* on-demand attempts on an entry stop at this count
MaxLimit == 2           \* largest batch limit, where selection is checked
MaxQueue == 2           \* entries ever created, where admission is checked
AdmissionLogs == 1      \* audit log entries, where admission is checked
DispatchQueue == 2      \* entries ever created, where selection is checked
DispatchLogs == 1       \* audit log entries, where selection is checked
DispatchTicks == 1      \* clock steps, where selection is checked
CancelLogs == 2         \* audit log entries, where the cancel in flight is checked
CancelTicks == 1        \* clock steps, where the cancel in flight is checked
ParallelLogs == 2       \* audit log entries, where attempts in parallel are checked
ServiceQueue == 3       \* entries ever created, where the default service is checked
RetentionDays == 2       \* days that pass, where retention is checked
ParallelTicks == 2      \* clock steps, where attempts in parallel are checked
ApplyLogs == 1          \* audit log entries, where results are applied
LiveLogs == 6           \* audit log entries, where dispatch is left to itself

(* Program constants *)
DefaultMaxAttempts == 3 \* max_attempts default
BackoffMinutes == 5     \* timedelta(minutes=5 * self.attempts)
DefaultPriority == 1    \* priority default, '1' Normal
DefaultLimit == 10      \* _cron_process_queue(self, limit=10)
ConfidenceThreshold == 75       \* confidence_threshold default 0.75, in hundredths
PyTrue == 1             \* return True: Python's True is the integer 1
DefaultRetentionYears == 10     \* retention_years default
DefaultRetentionMonths == 0     \* retention_months default
TagLimit == 5           \* tag_names[:5]

(* The values the operations are tried on *)
Documents == {1, 2}
AdmissionDocuments == {1}
ServiceRequests == {<<1>>, <<1, 2>>, <<1, 1>>}
Services == {1, 2}
NoService == 0
DispatchPriorities == {1, 3}    \* of '0' Low, '1' Normal, '2' High, '3' Urgent

(* What classify_document may return without an 'error' key: the parsed JSON *)
(* of the provider (confidence in hundredths), or the raw response when the  *)
(* JSON could not be parsed.                                                 *)
BelowThreshold == [confidence |-> 74, document_type |-> "invoice"]
AtThreshold == [confidence |-> 75, document_type |-> "contract"]
RawResponse == [raw_response |-> "text"]
PlainResults == {BelowThreshold, AtThreshold}
Results == PlainResults \cup {RawResponse}

Ids == 1..Len(queue)

-----------------------------------------------------------------------------
(* Helpers *)

Min(a, b) == IF a <= b THEN a ELSE b

Range(s) == {s[k] : k \in DOMAIN s}

(* dict.get(key, default) *)
Get(dict, key, default) == IF key \in DOMAIN dict THEN dict[key] ELSE default

(* Mutant of DefaultService: the active service created last *)
DefaultService_Newest ==
    IF active = {} THEN NoService
    ELSE CHOOSE s \in active : \A t \in active : s >= t

(* The first active service, in id order: search([active = True], limit=1) *)
DefaultService ==
    IF active = {} THEN NoService
    ELSE CHOOSE s \in active : \A t \in active : s <= t

(* The fields create() gives a new entry *)
NewEntry(doc, svc, prio) ==
    [document_id |-> doc, service_id |-> svc, state |-> "pending",
     priority |-> prio, attempts |-> 0, max_attempts |-> DefaultMaxAttempts,
     scheduled_date |-> now, error_message |-> FALSE, log_id |-> 0]

(* Mutant of Existing: the search looks for processing entries only *)
Existing_OnlyProcessing(doc) ==
    \E i \in Ids : /\ queue[i].document_id = doc
                   /\ queue[i].state \in {"processing"}

(* existing = search([document_id = doc, state in (pending, processing)], limit=1) *)
Existing(doc) ==
    \E i \in Ids : /\ queue[i].document_id = doc
                   /\ queue[i].state \in {"pending", "processing"}

(* The loop of add_documents_to_queue: the vals of the entries to create. *)
(* Nothing is created until the loop ends, so every search sees the queue *)
(* as it was when the call began.                                         *)
RECURSIVE QueueItems(_, _, _)
QueueItems(docs, svc, prio) ==
    IF docs = <<>> THEN <<>>
    ELSE (IF Existing(Head(docs)) THEN <<>> ELSE <<NewEntry(Head(docs), svc, prio)>>)
         \o QueueItems(Tail(docs), svc, prio)

(* History only: an entry for this very (document, service) pair is pending or processing *)
PairActive(doc, svc) ==
    \E i \in Ids : /\ queue[i].document_id = doc
                   /\ queue[i].service_id = svc
                   /\ queue[i].state \in {"pending", "processing"}

NoAdmission ==
    [docs |-> <<>>, given |-> NoService, service |-> NoService, had |-> {}, created |-> <<>>]

NoSnapshot == [at |-> 0, queue |-> <<>>]

NoReturn == <<>>

NoWorker == [id |-> 0]

-----------------------------------------------------------------------------
(* Documents and retention policies *)

(* A calendar date; NoDate is the False of an unset Date field *)
Date(y, m, d) == [y |-> y, m |-> m, d |-> d]

NoDate == Date(0, 0, 0)

(* The day the document was created, and the first value of today *)
FirstDay == Date(2021, 1, 30)

(* A documents.document as create() leaves it when given no values *)
NewDocument ==
    [document_date |-> NoDate, create_date |-> FirstDay, retention_policy_id |-> FALSE,
     retention_date |-> NoDate, retention_action_due |-> FALSE,
     sensitivity |-> "internal", extraction_confidence |-> 0, extracted_vendor |-> "",
     extracted_amount |-> <<>>, extracted_date |-> NoDate, extracted_reference |-> "",
     is_invoice |-> FALSE, invoice_state |-> "none", tag_ids |-> {}]

(* A documents.retention.policy as create() leaves it when given no values *)
NewPolicy ==
    [retention_years |-> DefaultRetentionYears, retention_months |-> DefaultRetentionMonths,
     retention_trigger |-> "document_date"]

NoPolicy == [retention_trigger |-> "deleted"]

NoSave == [retention_trigger |-> "none"]

(* The values the retention fields are written with *)
DocumentDates == {Date(2020, 1, 31), Date(2019, 12, 31)}
PolicyYears == {0, 1}
PolicyMonths == {0, 1}
PolicyTriggers == {"creation", "document_date", "expiry", "fiscal_year_end"}

IsLeap(y) == (y % 4 = 0 /\ y % 100 # 0) \/ y % 400 = 0

(* calendar.monthrange(y, m)[1] *)
DaysInMonth(y, m) ==
    IF m = 2 THEN (IF IsLeap(y) THEN 29 ELSE 28)
    ELSE IF m \in {4, 6, 9, 11} THEN 30 ELSE 31

(* Mutant of AddRelative: the day of the month is kept as it is *)
AddRelative_DayKept(date, years, months) ==
    LET t == (date.y + years) * 12 + (date.m - 1) + months
    IN Date(t \div 12, (t % 12) + 1, date.d)

(* date + relativedelta(years=years, months=months): the months carry into *)
(* the year, and the day is cut to the last day of the month reached       *)
AddRelative(date, years, months) ==
    LET t == (date.y + years) * 12 + (date.m - 1) + months
        y == t \div 12
        m == (t % 12) + 1
    IN Date(y, m, Min(date.d, DaysInMonth(y, m)))

(* a <= b on dates *)
DateLE(a, b) ==
    \/ a.y < b.y
    \/ a.y = b.y /\ a.m < b.m
    \/ a.y = b.y /\ a.m = b.m /\ a.d <= b.d

NextDay(date) ==
    IF date.d < DaysInMonth(date.y, date.m) THEN Date(date.y, date.m, date.d + 1)
    ELSE IF date.m < 12 THEN Date(date.y, date.m + 1, 1)
    ELSE Date(date.y + 1, 1, 1)

RECURSIVE DaysAfter(_, _)
DaysAfter(date, n) == IF n = 0 THEN date ELSE DaysAfter(NextDay(date), n - 1)

(* Mutant of ComputeRetentionDate: a trigger date that is absent falls back *)
(* to the day the document was created                                     *)
ComputeRetentionDate_CreationFallback(doc, pol) ==
    IF ~doc.retention_policy_id THEN NoDate
    ELSE LET trigger_date ==
                 IF pol.retention_trigger = "document_date" /\ doc.document_date # NoDate
                 THEN doc.document_date
                 ELSE IF pol.retention_trigger = "fiscal_year_end"
                         /\ doc.document_date # NoDate
                 THEN Date(doc.document_date.y, 12, 31)
                 ELSE doc.create_date
         IN AddRelative(trigger_date, pol.retention_years, pol.retention_months)

(* _compute_retention_date, for one document *)
ComputeRetentionDate(doc, pol) ==
    IF ~doc.retention_policy_id THEN NoDate
    ELSE LET trigger_date ==
                 IF pol.retention_trigger = "creation" THEN doc.create_date
                 ELSE IF pol.retention_trigger = "document_date" THEN doc.document_date
                 ELSE IF pol.retention_trigger = "fiscal_year_end"
                      THEN (IF doc.document_date # NoDate
                            THEN Date(doc.document_date.y, 12, 31)
                            ELSE NoDate)
                 ELSE NoDate
         IN IF trigger_date # NoDate
            THEN AddRelative(trigger_date, pol.retention_years, pol.retention_months)
            ELSE NoDate

(* Mutant of ComputeRetentionActionDue: due from the day after the deadline *)
ComputeRetentionActionDue_DayAfter(retention_date, day) ==
    retention_date # NoDate /\ retention_date # day /\ DateLE(retention_date, day)

(* _compute_retention_action_due, for one document *)
ComputeRetentionActionDue(retention_date, day) ==
    retention_date # NoDate /\ DateLE(retention_date, day)

(* Mutant of RetentionDateDepends: the policy's months are not declared *)
RetentionDateDepends_WithoutMonths ==
    {"document_date", "retention_policy_id", "retention_policy_id.retention_years",
     "retention_policy_id.retention_trigger"}

(* @api.depends of _compute_retention_date *)
RetentionDateDepends ==
    {"document_date", "retention_policy_id", "retention_policy_id.retention_years",
     "retention_policy_id.retention_months", "retention_policy_id.retention_trigger"}

(* @api.depends of _compute_retention_action_due *)
RetentionActionDueDepends == {"retention_date"}

(* The stored computed fields after a write on the field named changed: a  *)
(* field is computed again when one of its dependencies was written or     *)
(* computed again.                                                         *)
Recomputed(doc, pol, changed) ==
    LET date_again == changed \in RetentionDateDepends
        due_again == date_again /\ "retention_date" \in RetentionActionDueDepends
        retention_date == IF date_again THEN ComputeRetentionDate(doc, pol)
                          ELSE doc.retention_date
    IN [doc EXCEPT !.retention_date = retention_date,
                   !.retention_action_due =
                       IF due_again THEN ComputeRetentionActionDue(retention_date, today)
                       ELSE @]

(* Mutant of CheckRetentionPeriod: a period of no length is admitted *)
CheckRetentionPeriod_ZeroAdmitted(pol) ==
    pol.retention_years * 12 + pol.retention_months >= 0

(* @api.constrains _check_retention_period *)
CheckRetentionPeriod(pol) == pol.retention_years * 12 + pol.retention_months > 0

(* write on the document: document_date, or retention_policy_id (TRUE: the *)
(* policy, FALSE: none)                                                    *)
WriteDocument(field, value) ==
    /\ pc = "idle"
    /\ document[field] # value
    /\ field = "retention_policy_id" => (value = FALSE \/ policy # NoPolicy)
    /\ document' = Recomputed([document EXCEPT ![field] = value], policy, field)
    /\ rejected' = NoSave
    /\ UNCHANGED <<policy, today, queueVars, applierVars>>

(* write on the policy: retention_years, retention_months or               *)
(* retention_trigger.  A period that is not positive raises                *)
(* ValidationError and nothing is written.  The documents that have the    *)
(* policy are computed again.                                              *)
WritePolicy(field, value) ==
    /\ pc = "idle"
    /\ policy # NoPolicy
    /\ policy[field] # value
    /\ LET written == [policy EXCEPT ![field] = value]
       IN IF CheckRetentionPeriod(written)
          THEN /\ policy' = written
               /\ document' = IF document.retention_policy_id
                              THEN Recomputed(document, written,
                                              "retention_policy_id." \o field)
                              ELSE document
               /\ rejected' = NoSave
          ELSE /\ rejected' = written
               /\ UNCHANGED <<policy, document>>
    /\ UNCHANGED <<today, queueVars, applierVars>>

(* unlink of the policy: retention_policy_id has no ondelete, so the       *)
(* reference is set to null, and the document is computed again            *)
DeletePolicy ==
    /\ pc = "idle"
    /\ policy # NoPolicy
    /\ policy' = NoPolicy
    /\ document' = IF document.retention_policy_id
                   THEN Recomputed([document EXCEPT !.retention_policy_id = FALSE],
                                   NoPolicy, "retention_policy_id")
                   ELSE document
    /\ rejected' = NoSave
    /\ UNCHANGED <<today, queueVars, applierVars>>

(* create of a policy, after the last one was deleted *)
CreatePolicy ==
    /\ pc = "idle"
    /\ policy = NoPolicy
    /\ policy' = NewPolicy
    /\ rejected' = NoSave
    /\ UNCHANGED <<document, today, queueVars, applierVars>>

(* create of a policy with a period given: the constraint runs on the new  *)
(* record, and a period that is not positive raises ValidationError and    *)
(* creates nothing                                                         *)
CreatePolicyWith(years, months) ==
    /\ pc = "idle"
    /\ policy = NoPolicy
    /\ LET created == [NewPolicy EXCEPT !.retention_years = years,
                                        !.retention_months = months]
       IN IF CheckRetentionPeriod(created)
          THEN policy' = created /\ rejected' = NoSave
          ELSE policy' = policy /\ rejected' = created
    /\ UNCHANGED <<document, today, queueVars, applierVars>>

(* Midnight: fields.Date.today() is the next day; nothing is computed *)
NextDayBegins ==
    /\ today' = NextDay(today)
    /\ rejected' = NoSave
    /\ UNCHANGED <<document, policy, queueVars, applierVars>>

DayRoom(n) == \E k \in 0..(n - 1) : today = DaysAfter(FirstDay, k)

NextRetention ==
    \/ \E value \in DocumentDates \cup {NoDate} : WriteDocument("document_date", value)
    \/ \E value \in BOOLEAN : WriteDocument("retention_policy_id", value)
    \/ \E value \in PolicyYears : WritePolicy("retention_years", value)
    \/ \E value \in PolicyMonths : WritePolicy("retention_months", value)
    \/ \E value \in PolicyTriggers : WritePolicy("retention_trigger", value)
    \/ DeletePolicy
    \/ CreatePolicy
    \/ DayRoom(RetentionDays) /\ NextDayBegins

-----------------------------------------------------------------------------
(* The result applier: apply_classification.  Text whose letters matter is *)
(* a sequence of one-letter strings.                                       *)
TagTax == <<"T", "a", "x">>
TagRent == <<"R", "e", "n", "t">>

(* The documents.tag records *)
Taxonomy == <<TagTax, TagRent>>
Taxonomies == {<<>>, <<TagTax>>, Taxonomy}

NoApply == [call |-> FALSE]

(* The services apply_classification is called on: confidence_threshold in *)
(* hundredths, and auto_tag                                                *)
ApplyServices ==
    [confidence_threshold : {ConfidenceThreshold, 90}, auto_tag : BOOLEAN]

(* Results of the provider, with and without an 'error' key *)
ExtractedData ==
    [vendor_name |-> "ACME", amount |-> <<"1", ",", "5">>, date |-> Date(2024, 3, 1),
     reference |-> "R-1"]
ErrorMarked ==
    [error |-> "timeout", confidence |-> 90, document_type |-> "invoice",
     extracted_data |-> ExtractedData, sensitivity |-> "restricted",
     suggested_tags |-> <<<<"t", "a", "x">>>>]
FullBelow ==
    [confidence |-> 74, document_type |-> "invoice", extracted_data |-> ExtractedData,
     sensitivity |-> "restricted", suggested_tags |-> <<<<"t", "a", "x">>>>]
FullAt ==
    [confidence |-> 75, document_type |-> "invoice", extracted_data |-> ExtractedData,
     sensitivity |-> "restricted", suggested_tags |-> <<<<"t", "a", "x">>, <<"E", "N">>>>]
Unmatched ==
    [confidence |-> 90, document_type |-> "contract",
     extracted_data |-> [amount |-> <<"1", ".", "2", ",", "5">>],
     sensitivity |-> "secret",
     suggested_tags |-> <<<<"f", "e", "e">>, <<"t", "a", "x", "e", "s">>>>]
SixthMatches ==
    [confidence |-> 90,
     suggested_tags |-> <<<<"f", "e", "e">>, <<"t", "a", "x">>, <<"d", "u", "e">>,
                          <<"v", "a", "t">>, <<"n", "e", "t">>, <<"r", "e", "n", "t">>>>]
ApplyResults == Results \cup {ErrorMarked, FullBelow, FullAt, Unmatched, SixthMatches}

(* Letters without their case, as ilike compares them *)
Fold(c) ==
    CASE c = "T" -> "t" [] c = "A" -> "a" [] c = "X" -> "x" [] c = "R" -> "r"
      [] c = "E" -> "e" [] c = "N" -> "n" [] OTHER -> c

(* name ilike pattern: pattern occurs in name, whatever the case *)
ILike(name, pattern) ==
    \E k \in 0..(Len(name) - Len(pattern)) :
        \A j \in 1..Len(pattern) : Fold(name[k + j]) = Fold(pattern[j])

(* Tag.search([('name', 'ilike', pattern)], limit=1): the id, 0 if none *)
SearchTag(pattern) ==
    LET hits == {i \in DOMAIN tags : ILike(tags[i], pattern)}
    IN IF hits = {} THEN 0 ELSE CHOOSE i \in hits : \A j \in hits : i <= j

(* _get_or_create_tags: the ids found for the first TagLimit names *)
GetOrCreateTags(tag_names) ==
    LET first == SubSeq(tag_names, 1, Min(Len(tag_names), TagLimit))
        found == [k \in DOMAIN first |-> SearchTag(first[k])]
    IN SelectSeq(found, LAMBDA id : id # 0)

(* Mutant of CreatedTags: a name that no tag matches is created *)
CreatedTags_Unmatched(tag_names) ==
    SelectSeq(SubSeq(tag_names, 1, Min(Len(tag_names), TagLimit)),
              LAMBDA name : SearchTag(name) = 0)

(* The tags _get_or_create_tags creates: none (line 305) *)
CreatedTags(tag_names) == <<>>

Digits == {"0", "1", "2", "3", "4", "5", "6", "7", "8", "9"}

(* str(amount).replace(',', '.') *)
AmountText(amount) == [k \in DOMAIN amount |-> IF amount[k] = "," THEN "." ELSE amount[k]]

(* float(text) does not raise ValueError: digits around at most one period *)
IsFloat(text) ==
    /\ \A k \in DOMAIN text : text[k] \in Digits \cup {"."}
    /\ \E k \in DOMAIN text : text[k] \in Digits
    /\ Cardinality({k \in DOMAIN text : text[k] = "."}) <= 1

SensitivityMap == {"public", "internal", "confidential", "restricted"}

(* f, with the keys of g set to g's values *)
Update(f, g) ==
    [k \in DOMAIN f \cup DOMAIN g |-> IF k \in DOMAIN g THEN g[k] ELSE f[k]]

(* Mutant of ApplyRefused: a confidence equal to the threshold is refused *)
ApplyRefused_AtThreshold(svc, classification) ==
    \/ "error" \in DOMAIN classification
    \/ Get(classification, "confidence", 0) <= svc.confidence_threshold

(* The first two returns of apply_classification: lines 241-247 *)
ApplyRefused(svc, classification) ==
    \/ "error" \in DOMAIN classification
    \/ Get(classification, "confidence", 0) < svc.confidence_threshold

(* values of lines 249-288, for a result that passed lines 241-247 *)
ApplyValues(svc, classification) ==
    LET extracted == Get(classification, "extracted_data", <<>>)
        vendor_name == Get(extracted, "vendor_name", "")
        amount == Get(extracted, "amount", <<>>)
        date == Get(extracted, "date", NoDate)
        reference == Get(extracted, "reference", "")
        suggested_tags == Get(classification, "suggested_tags", <<>>)
        tag_ids == IF svc.auto_tag /\ suggested_tags # <<>>
                   THEN GetOrCreateTags(suggested_tags) ELSE <<>>
        v1 == [extraction_confidence |-> Get(classification, "confidence", 0)]
        v2 == IF vendor_name # "" THEN Update(v1, [extracted_vendor |-> vendor_name]) ELSE v1
        v3 == IF amount # <<>> /\ IsFloat(AmountText(amount))
              THEN Update(v2, [extracted_amount |-> AmountText(amount)]) ELSE v2
        v4 == IF date # NoDate THEN Update(v3, [extracted_date |-> date]) ELSE v3
        v5 == IF reference # "" THEN Update(v4, [extracted_reference |-> reference]) ELSE v4
        v6 == IF Get(classification, "document_type", "") = "invoice"
              THEN Update(v5, [is_invoice |-> TRUE, invoice_state |-> "pending"]) ELSE v5
        v7 == IF Get(classification, "sensitivity", "") \in SensitivityMap
              THEN Update(v6, [sensitivity |-> classification.sensitivity]) ELSE v6
    IN IF tag_ids # <<>> THEN Update(v7, [tag_ids |-> Range(tag_ids)]) ELSE v7

(* document.write(values); the command (4, id) adds the tag to tag_ids *)
Written(doc, values) ==
    [f \in DOMAIN doc |->
        IF f \notin DOMAIN values THEN doc[f]
        ELSE IF f = "tag_ids" THEN doc[f] \cup values[f]
        ELSE values[f]]

(* apply_classification(document, classification) on the service svc, and *)
(* the end of the request that called it                                  *)
ApplyTo(svc, classification) ==
    LET refused == ApplyRefused(svc, classification)
        values == ApplyValues(svc, classification)
    IN /\ document' = IF refused THEN document ELSE Written(document, values)
       /\ tags' = IF ~refused /\ svc.auto_tag
                  THEN tags \o CreatedTags(Get(classification, "suggested_tags", <<>>))
                  ELSE tags
       /\ applyCall' = [call |-> TRUE, service |-> svc, classification |-> classification,
                        before |-> document, returned |-> ~refused]

Apply(svc, classification) ==
    /\ pc = "idle"
    /\ ApplyTo(svc, classification)
    /\ UNCHANGED <<policy, today, rejected, queueVars>>

-----------------------------------------------------------------------------
(* The queue side after construction, with the entries q *)
InitQueue(q) ==
    /\ now = 0
    /\ queue = q
    /\ logs = <<>>
    /\ dbQueue = q
    /\ dbLogs = <<>>
    /\ active = Services
    /\ pc = "idle"
    /\ mode = "none"
    /\ items = <<>>
    /\ cur = 0
    /\ limit = 0
    /\ snapshot = NoSnapshot
    /\ dispatched = <<>>
    /\ admission = NoAdmission
    /\ returned = NoReturn
    /\ worker = NoWorker

InitWith(q) ==
    /\ InitQueue(q)
    /\ document = NewDocument
    /\ policy = NewPolicy
    /\ today = FirstDay
    /\ rejected = NoSave
    /\ tags = Taxonomy
    /\ applyCall = NoApply

(* add_documents_to_queue(document_ids, service_id, priority), committed at *)
(* the end of the request.  With no service given and no active one it      *)
(* raises UserError before the loop (service stays NoService) and creates   *)
(* nothing.                                                                 *)
Enqueue(docs, svc, prio) ==
    /\ pc = "idle"
    /\ LET service == IF svc = NoService THEN DefaultService ELSE svc
           created == IF service = NoService THEN <<>>
                      ELSE QueueItems(docs, service, prio)
       IN /\ queue' = queue \o created
          /\ dbQueue' = queue'
          /\ admission' = [docs |-> docs, given |-> svc, service |-> service,
                           had |-> {d \in Range(docs) : PairActive(d, service)},
                           created |-> [k \in DOMAIN created |-> created[k].document_id]]
    /\ UNCHANGED <<logs, dbLogs, active, now, pc, mode, items, cur, limit,
                   snapshot, dispatched>>
    /\ returned' = NoReturn
    /\ UNCHANGED <<worker, retentionVars, applierVars>>

(* A write on a service's active field (archive, unarchive) *)
SetActive(s, b) ==
    /\ pc = "idle"
    /\ active' = IF b THEN active \cup {s} ELSE active \ {s}
    /\ active' # active
    /\ admission' = NoAdmission
    /\ returned' = NoReturn
    /\ UNCHANGED <<queue, logs, dbQueue, dbLogs, now, pc, mode, items, cur, limit,
                   snapshot, dispatched, worker, retentionVars, applierVars>>

(* action_cancel: one unconditional write *)
Cancelled(e) == [e EXCEPT !.state = "cancelled"]

Cancel(i) ==
    /\ pc = "idle"
    /\ i \in Ids
    /\ queue' = [queue EXCEPT ![i] = Cancelled(@)]
    /\ dbQueue' = queue'
    /\ admission' = NoAdmission
    /\ UNCHANGED <<logs, dbLogs, active, now, pc, mode, items, cur, limit,
                   snapshot, dispatched>>
    /\ returned' = NoReturn
    /\ UNCHANGED <<worker, retentionVars, applierVars>>

(* action_retry: one unconditional write *)
Retried(e) ==
    [e EXCEPT !.state = "pending", !.attempts = 0, !.error_message = FALSE,
              !.scheduled_date = now]

Retry(i) ==
    /\ pc = "idle"
    /\ i \in Ids
    /\ queue' = [queue EXCEPT ![i] = Retried(@)]
    /\ dbQueue' = queue'
    /\ admission' = NoAdmission
    /\ UNCHANGED <<logs, dbLogs, active, now, pc, mode, items, cur, limit,
                   snapshot, dispatched>>
    /\ returned' = NoReturn
    /\ UNCHANGED <<worker, retentionVars, applierVars>>

-----------------------------------------------------------------------------
(* The dispatch cycle *)

(* Mutant of Eligible: the search takes cancelled entries too *)
Eligible_WithCancelled(e) == e.state \in {"pending", "cancelled"} /\ e.scheduled_date <= now

(* The search domain of _cron_process_queue *)
Eligible(e) == e.state = "pending" /\ e.scheduled_date <= now

EligibleIds == {i \in Ids : Eligible(queue[i])}

(* Mutant of Before: order='priority asc, scheduled_date asc' *)
Before_PriorityAscending(a, b) ==
    \/ a.priority < b.priority
    \/ /\ a.priority = b.priority
       /\ a.scheduled_date < b.scheduled_date

(* a comes strictly before b under order='priority desc, scheduled_date asc' *)
Before(a, b) ==
    \/ a.priority > b.priority
    \/ /\ a.priority = b.priority
       /\ a.scheduled_date < b.scheduled_date

(* Mutant of Limited: the search is given no limit *)
Limited_Unlimited(lim, n) == n

(* How many records search(..., limit=lim) returns when n match *)
Limited(lim, n) == Min(lim, n)

(* The results search(domain, limit=lim, order=...) may return: the first  *)
(* lim eligible entries in that order; the order of entries that tie on    *)
(* both keys is the database's choice.                                     *)
Selections(lim) ==
    LET n == Limited(lim, Cardinality(EligibleIds))
    IN {s \in [1..n -> EligibleIds] :
          /\ \A j, k \in 1..n : j < k => s[j] # s[k] /\ ~Before(queue[s[k]], queue[s[j]])
          /\ \A e \in EligibleIds :
                (\A j \in 1..n : s[j] # e) => \A j \in 1..n : ~Before(queue[e], queue[s[j]])}

CronStart(lim) ==
    /\ pc = "idle"
    /\ \E s \in Selections(lim) : items' = s
    /\ pc' = "loop"
    /\ mode' = "cron"
    /\ limit' = lim
    /\ snapshot' = [at |-> now, queue |-> queue]
    /\ dispatched' = <<>>
    /\ admission' = NoAdmission
    /\ UNCHANGED <<queue, logs, dbQueue, dbLogs, active, now, cur>>
    /\ returned' = NoReturn
    /\ UNCHANGED <<worker, retentionVars, applierVars>>

(* action_process, lines 93-100: the guard and the first write *)
Processable(e) == e.state \in {"pending", "failed"}

(* Mutant of Claimed: the attempt is not counted *)
Claimed_Uncounted(e) == [e EXCEPT !.state = "processing"]

Claimed(e) == [e EXCEPT !.state = "processing", !.attempts = @ + 1]

(* the loop body of _cron_process_queue up to the provider call *)
CronDispatch ==
    /\ pc = "loop"
    /\ items # <<>>
    /\ LET i == Head(items)
       IN IF Processable(queue[i])
          THEN /\ queue' = [queue EXCEPT ![i] = Claimed(@)]
               /\ pc' = "call"
               /\ cur' = i
               /\ dispatched' = Append(dispatched, i)
               /\ UNCHANGED dbQueue
          ELSE \* action_process returns at once; the cycle commits
               /\ dbQueue' = queue
               /\ UNCHANGED <<queue, pc, cur, dispatched>>
    /\ items' = Tail(items)
    /\ UNCHANGED <<logs, dbLogs, active, now, mode, limit, snapshot, admission>>
    /\ UNCHANGED <<returned, worker, retentionVars, applierVars>>

(* action_process called on one entry from its form (on demand) *)
ButtonProcess(i) ==
    /\ pc = "idle"
    /\ i \in Ids
    /\ Processable(queue[i])
    /\ queue' = [queue EXCEPT ![i] = Claimed(@)]
    /\ pc' = "call"
    /\ mode' = "button"
    /\ cur' = i
    /\ admission' = NoAdmission
    /\ UNCHANGED <<logs, dbLogs, dbQueue, active, now, items, limit,
                   snapshot, dispatched>>
    /\ returned' = NoReturn
    /\ UNCHANGED <<worker, retentionVars, applierVars>>

(* Mutant of Failed: the delay counts the attempts before this one *)
Failed_DelayFromPreviousAttempts(e) ==
    [e EXCEPT !.state = IF e.attempts >= e.max_attempts THEN "failed" ELSE "pending",
              !.error_message = TRUE,
              !.scheduled_date = now + BackoffMinutes * (e.attempts - 1)]

(* The write of lines 122-126 and of lines 152-156 *)
Failed(e) ==
    [e EXCEPT !.state = IF e.attempts >= e.max_attempts THEN "failed" ELSE "pending",
              !.error_message = TRUE,
              !.scheduled_date = now + BackoffMinutes * e.attempts]

(* What apply_classification returns.  At or above the threshold the values *)
(* to write always hold extraction_confidence, so the document is written.  *)
ApplyClassification(classification) ==
    IF "error" \in DOMAIN classification THEN FALSE
    ELSE IF Get(classification, "confidence", 0) < ConfidenceThreshold THEN FALSE
    ELSE TRUE

(* Mutant of Done: an attempt that used up max_attempts is failed *)
Done_FailedWhenExhausted(e) ==
    [e EXCEPT !.state = IF e.attempts >= e.max_attempts THEN "failed" ELSE "done"]

(* The write of lines 140-145 *)
Done(e) == [e EXCEPT !.state = "done"]

(* log_vals of lines 111-138, as create() stores them: a Float that is not *)
(* given is 0, a Char that is not given is empty                           *)
LogVals(e, err, confidence, document_type, applied) ==
    [document_id |-> e.document_id, service_id |-> e.service_id,
     error |-> err, confidence |-> confidence, document_type |-> document_type,
     applied |-> applied]

(* After the attempt: the cycle goes on, the request ends *)
Finish ==
    /\ pc' = IF mode = "cron" THEN "loop" ELSE "idle"
    /\ mode' = IF mode = "cron" THEN "cron" ELSE "none"
    /\ cur' = 0

(* Mutant of Commit: the cycle commits nothing until it ends *)
Commit_Nothing == UNCHANGED <<dbQueue, dbLogs>>

(* cr.commit() of line 184, and the commit that ends a request *)
Commit ==
    /\ dbQueue' = queue'
    /\ dbLogs' = logs'

(* classify_document returned {'error': ...}: lines 117-126, 147-148 *)
ProviderError ==
    /\ pc = "call"
    /\ logs' = Append(logs, LogVals(queue[cur], TRUE, 0, "", FALSE))
    /\ queue' = [queue EXCEPT ![cur] = [Failed(@) EXCEPT !.log_id = Len(logs')]]
    /\ Commit
    /\ Finish
    /\ UNCHANGED <<active, now, items, limit, snapshot, dispatched, admission>>
    /\ UNCHANGED <<returned, worker, retentionVars, applierVars>>

(* classify_document returned a result without an 'error' key: lines 127-148 *)
ProviderSuccess(result) ==
    /\ pc = "call"
    /\ logs' = Append(logs, LogVals(queue[cur], FALSE, Get(result, "confidence", 0),
                                    Get(result, "document_type", ""),
                                    ApplyClassification(result)))
    /\ queue' = [queue EXCEPT ![cur] = [Done(@) EXCEPT !.log_id = Len(logs')]]
    /\ Commit
    /\ Finish
    /\ UNCHANGED <<active, now, items, limit, snapshot, dispatched, admission>>
    /\ UNCHANGED <<returned, worker, retentionVars, applierVars>>

(* An exception raised inside the try block (by classify_document before  *)
(* its own try, by apply_classification, by the log's create) and caught  *)
(* at line 150: the write of lines 152-156, and no log entry.             *)
ProviderException ==
    /\ pc = "call"
    /\ queue' = [queue EXCEPT ![cur] = Failed(@)]
    /\ UNCHANGED logs
    /\ Commit
    /\ Finish
    /\ UNCHANGED <<active, now, items, limit, snapshot, dispatched, admission>>
    /\ UNCHANGED <<returned, worker, retentionVars, applierVars>>

(* An exception that leaves action_process (the write of the except block   *)
(* fails too): the cycle rolls back (line 187), the request is rolled back. *)
Rollback ==
    /\ pc = "call"
    /\ queue' = dbQueue
    /\ logs' = dbLogs
    /\ Finish
    /\ UNCHANGED <<dbQueue, dbLogs, active, now, items, limit,
                   snapshot, dispatched, admission>>
    /\ UNCHANGED <<returned, worker, retentionVars, applierVars>>

(* _cron_process_queue returns *)
CronEnd ==
    /\ pc = "loop"
    /\ items = <<>>
    /\ pc' = "idle"
    /\ mode' = "none"
    /\ limit' = 0
    /\ snapshot' = NoSnapshot
    /\ dispatched' = <<>>
    /\ UNCHANGED <<queue, logs, dbQueue, dbLogs, active, now, items, cur, admission>>
    /\ returned' = <<PyTrue>>
    /\ UNCHANGED <<worker, retentionVars, applierVars>>

(* The process dies: what was not committed is lost *)
Crash ==
    /\ pc # "idle"
    /\ queue' = dbQueue
    /\ logs' = dbLogs
    /\ pc' = "idle"
    /\ mode' = "none"
    /\ items' = <<>>
    /\ cur' = 0
    /\ limit' = 0
    /\ snapshot' = NoSnapshot
    /\ dispatched' = <<>>
    /\ UNCHANGED <<dbQueue, dbLogs, active, now, admission>>
    /\ UNCHANGED <<returned, worker, retentionVars, applierVars>>

(* action_cancel from another request while the provider call is in flight. *)
(* The attempt has not committed its first write, so the other request      *)
(* sees the entry as committed; its write is committed at once, and the     *)
(* running transaction does not see it.                                     *)
CancelInFlight ==
    /\ pc = "call"
    /\ dbQueue[cur].state # "cancelled"
    /\ dbQueue' = [dbQueue EXCEPT ![cur] = Cancelled(@)]
    /\ UNCHANGED <<queue, logs, dbLogs, active, now, pc, mode, items, cur, limit,
                   snapshot, dispatched, admission, returned, worker, retentionVars, applierVars>>

(* The entry in flight was cancelled, and the cancel committed, after the   *)
(* attempt read it                                                          *)
CancelledInFlight == pc = "call" /\ dbQueue[cur].state = "cancelled"

(* action_process on entry i by another request, in a transaction of its    *)
(* own: it reads the entry as committed, passes the guard of line 93, makes *)
(* its first write in its own transaction and calls the provider.           *)
WorkerProcess(i) ==
    /\ worker = NoWorker
    /\ i \in DOMAIN dbQueue
    /\ Processable(dbQueue[i])
    /\ worker' = [id |-> i, read |-> dbQueue[i]]
    /\ UNCHANGED <<queue, logs, dbQueue, dbLogs, active, now, pc, mode, items, cur, limit,
                   snapshot, dispatched, admission, returned, retentionVars, applierVars>>

(* The other request's provider call returns.  If the committed entry is no *)
(* longer the one it read, its update fails and the request is rolled back. *)
(* Otherwise it records an error or a result and commits; the model lets it *)
(* commit between the operations of this side only.                         *)
WorkerReturn ==
    /\ worker # NoWorker
    /\ IF dbQueue[worker.id] # worker.read
       THEN UNCHANGED <<queue, logs, dbQueue, dbLogs>>
       ELSE /\ pc = "idle"
            /\ \E err \in BOOLEAN :
                  /\ logs' = Append(logs, LogVals(worker.read, err, 0, "", FALSE))
                  /\ queue' = [queue EXCEPT ![worker.id] =
                                  [(IF err THEN Failed(Claimed(worker.read))
                                           ELSE Done(Claimed(worker.read)))
                                   EXCEPT !.log_id = Len(logs')]]
            /\ Commit
    /\ worker' = NoWorker
    /\ UNCHANGED <<active, now, pc, mode, items, cur, limit,
                   snapshot, dispatched, admission, returned, retentionVars, applierVars>>

(* Time passes, between operations or during the provider call *)
Tick ==
    /\ pc # "loop"
    /\ now' = now + BackoffMinutes
    /\ admission' = NoAdmission
    /\ UNCHANGED <<queue, logs, dbQueue, dbLogs, active, pc, mode, items, cur, limit,
                   snapshot, dispatched>>
    /\ returned' = NoReturn
    /\ UNCHANGED <<worker, retentionVars, applierVars>>

-----------------------------------------------------------------------------
(* action_classify_ai on the document: the first active service classifies *)
(* it; an 'error' result raises UserError, and so does the lack of an      *)
(* active service; otherwise a log entry is created with applied False,    *)
(* the result is applied, and the request commits.                         *)
ClassifyAI(svc, result) ==
    /\ pc = "idle"
    /\ IF DefaultService = NoService \/ "error" \in DOMAIN result
       THEN UNCHANGED <<logs, dbLogs, document, tags, applyCall>>
       ELSE /\ logs' = Append(logs, LogVals([document_id |-> 1,
                                             service_id |-> DefaultService],
                                            FALSE, Get(result, "confidence", 0),
                                            Get(result, "document_type", ""), FALSE))
            /\ dbLogs' = logs'
            /\ ApplyTo(svc, result)
    /\ admission' = NoAdmission
    /\ returned' = NoReturn
    /\ UNCHANGED <<queue, dbQueue, active, now, pc, mode, items, cur, limit,
                   snapshot, dispatched, worker, policy, today, rejected>>

(* The bounds, as guards on the steps that grow the state *)
LogRoom(n) == Len(logs) < n
ClockRoom(n) == now < n * BackoffMinutes
AttemptRoom(i) == queue[i].attempts < AttemptsCap

(* What ends an attempt *)
Outcome(maxLogs, results) ==
    \/ LogRoom(maxLogs) /\ ProviderError
    \/ \E result \in results : LogRoom(maxLogs) /\ ProviderSuccess(result)
    \/ ProviderException
    \/ Rollback
    \/ Crash

(* How an attempt ends when another request may cancel its entry during the *)
(* call.  The database runs transactions at REPEATABLE READ: the attempt's  *)
(* update of a row that another transaction changed and committed since the *)
(* attempt read it fails, the exception leaves action_process, and the      *)
(* attempt is rolled back.  (A cancel that finds the row locked waits for   *)
(* the attempt to commit: that is Cancel after the attempt.)                *)
OutcomeUnderCancel(maxLogs, results) ==
    IF CancelledInFlight THEN Rollback \/ Crash ELSE Outcome(maxLogs, results)

(* One entry, from its creation on: dispatch cycles, on-demand attempts, *)
(* cancel and retry, with time passing.                                  *)
InitEntry == InitWith(<<NewEntry(1, 1, DefaultPriority)>>)

NextEntry ==
    \/ \E i \in Ids : Cancel(i)
    \/ \E i \in Ids : Retry(i)
    \/ CronStart(DefaultLimit)
    \/ CronDispatch
    \/ CronEnd
    \/ \E i \in Ids : AttemptRoom(i) /\ ButtonProcess(i)
    \/ Outcome(MaxLogs, Results)
    \/ ClockRoom(MaxTicks) /\ Tick

SpecEntry == InitEntry /\ [][NextEntry]_vars

(* One entry, with cancels that arrive while its provider call is in flight *)
NextCancel ==
    \/ \E i \in Ids : Cancel(i)
    \/ \E i \in Ids : Retry(i)
    \/ CronStart(DefaultLimit)
    \/ CronDispatch
    \/ CronEnd
    \/ \E i \in Ids : AttemptRoom(i) /\ ButtonProcess(i)
    \/ CancelInFlight
    \/ OutcomeUnderCancel(CancelLogs, PlainResults)
    \/ ClockRoom(CancelTicks) /\ Tick

SpecCancel == InitEntry /\ [][NextCancel]_vars

(* One entry, with dispatch cycles on this side and on-demand attempts by *)
(* another request.                                                       *)
NextParallel ==
    \/ CronStart(DefaultLimit)
    \/ CronDispatch
    \/ CronEnd
    \/ Outcome(ParallelLogs, PlainResults)
    \/ \E i \in Ids : WorkerProcess(i)
    \/ LogRoom(ParallelLogs) /\ WorkerReturn
    \/ ClockRoom(ParallelTicks) /\ Tick

SpecParallel == InitEntry /\ [][NextParallel]_vars

(* Admission: a document enqueued for either service while entries are *)
(* dispatched, cancelled and retried.                                   *)
Init == InitWith(<<>>)

Next ==
    \/ \E d \in AdmissionDocuments, s \in Services \cup {NoService} :
          Enqueue(<<d>>, s, DefaultPriority) /\ Len(queue') <= MaxQueue
    \/ \E i \in Ids : Cancel(i)
    \/ \E i \in Ids : Retry(i)
    \/ CronStart(DefaultLimit)
    \/ CronDispatch
    \/ CronEnd
    \/ Outcome(AdmissionLogs, PlainResults)

Spec == Init /\ [][Next]_vars

(* Admission again, with the operator holding to the states the operations *)
(* are meant for: cancel on pending or failed entries, retry on failed ones, *)
(* and attempts on demand.                                                   *)
NextOperator ==
    \/ \E d \in AdmissionDocuments :
          Enqueue(<<d>>, NoService, DefaultPriority) /\ Len(queue') <= MaxQueue
    \/ \E i \in Ids : queue[i].state \in {"pending", "failed"} /\ Cancel(i)
    \/ \E i \in Ids : queue[i].state = "failed" /\ Retry(i)
    \/ CronStart(DefaultLimit)
    \/ CronDispatch
    \/ CronEnd
    \/ \E i \in Ids : AttemptRoom(i) /\ ButtonProcess(i)
    \/ Outcome(AdmissionLogs, PlainResults)

SpecOperator == Init /\ [][NextOperator]_vars

(* Selection: documents enqueued at different times and priorities, and *)
(* dispatch cycles with different batch limits.                         *)
NextDispatch ==
    \/ \E d \in Documents, p \in DispatchPriorities :
          Enqueue(<<d>>, NoService, p) /\ Len(queue') <= DispatchQueue
    \/ \E lim \in 1..MaxLimit : CronStart(lim)
    \/ CronDispatch
    \/ CronEnd
    \/ Outcome(DispatchLogs, PlainResults)
    \/ ClockRoom(DispatchTicks) /\ Tick

SpecDispatch == Init /\ [][NextDispatch]_vars

(* Admission with and without a service, while services are archived and *)
(* unarchived.                                                           *)
NextService ==
    \/ \E docs \in ServiceRequests, s \in Services \cup {NoService} :
          Enqueue(docs, s, DefaultPriority) /\ Len(queue') <= ServiceQueue
    \/ \E s \in Services, b \in BOOLEAN : SetActive(s, b)
    \/ \E i \in Ids : Cancel(i)

SpecService == Init /\ [][NextService]_vars

(* One document and one policy: writes on the document's date and policy, *)
(* on the policy's period and trigger, the policy deleted and created     *)
(* again, while days pass.                                                *)
SpecRetention == Init /\ [][NextRetention]_vars

(* The resolver on its inputs: a document created on FirstDay, a policy of *)
(* any trigger and of any period the constraint admits, one day of         *)
(* evaluation; the document's date and policy are written.                 *)
ResolverDates == {Date(2020, 1, 31), Date(2015, 6, 1), Date(2019, 12, 15)}
ResolverYears == {0, 1, 10}
ResolverMonths == {-1, 0, 1}
ResolverTriggers == PolicyTriggers \cup {"last_access"}
ResolverDays == {Date(2021, 2, 28), Date(2025, 5, 31), Date(2025, 6, 1)}

InitResolver ==
    /\ InitQueue(<<>>)
    /\ document = NewDocument
    /\ \E years \in ResolverYears, months \in ResolverMonths,
          trigger \in ResolverTriggers :
          /\ policy = [retention_years |-> years, retention_months |-> months,
                       retention_trigger |-> trigger]
          /\ CheckRetentionPeriod(policy)
    /\ today \in ResolverDays
    /\ rejected = NoSave
    /\ tags = Taxonomy
    /\ applyCall = NoApply

NextResolver ==
    \/ \E value \in ResolverDates \cup {NoDate} : WriteDocument("document_date", value)
    \/ \E value \in BOOLEAN : WriteDocument("retention_policy_id", value)

SpecResolver == InitResolver /\ [][NextResolver]_vars

(* The policy's saves: it is edited, deleted and created again, with      *)
(* periods on both sides of zero, attached to the document or not.        *)
SavedYears == {-1, 0, 1}
SavedMonths == {-1, 0, 1, 13}

NextPolicy ==
    \/ \E value \in SavedYears : WritePolicy("retention_years", value)
    \/ \E value \in SavedMonths : WritePolicy("retention_months", value)
    \/ \E value \in PolicyTriggers : WritePolicy("retention_trigger", value)
    \/ DeletePolicy
    \/ \E years \in SavedYears, months \in SavedMonths : CreatePolicyWith(years, months)
    \/ \E value \in BOOLEAN : WriteDocument("retention_policy_id", value)

SpecPolicy == Init /\ [][NextPolicy]_vars

(* The result applier on its inputs: a taxonomy, and results applied by   *)
(* services of either threshold, with and without auto_tag, directly and  *)
(* by classification on demand.                                           *)
InitApply ==
    /\ InitQueue(<<>>)
    /\ document = NewDocument
    /\ policy = NewPolicy
    /\ today = FirstDay
    /\ rejected = NoSave
    /\ tags \in Taxonomies
    /\ applyCall = NoApply

NextApply ==
    \/ \E svc \in ApplyServices, classification \in ApplyResults :
          Apply(svc, classification)
    \/ \E svc \in ApplyServices, result \in ApplyResults :
          LogRoom(ApplyLogs) /\ ClassifyAI(svc, result)

SpecApply == InitApply /\ [][NextApply]_vars

(* Dispatch left to itself: two entries, no enqueue and no operator, one  *)
(* dispatch cycle after the other, and the clock moving on as long as an   *)
(* entry waits for its scheduled_date.  The scheduler starts cycles again and again and goes     *)
(* through each; a provider call ends, by a return or by the end of the    *)
(* transaction or of the process; nothing more is known of how it ends.    *)
(* The process dies during provider calls only, so that every cycle gets   *)
(* to its entries.  Time does not wait for the scheduler: the clock moves  *)
(* on even when cycles that find nothing keep running.                     *)
InitLive ==
    InitWith(<<NewEntry(1, 1, DefaultPriority), NewEntry(2, 1, DefaultPriority)>>)

Waiting ==
    /\ pc = "idle"
    /\ \E i \in Ids : queue[i].state = "pending" /\ queue[i].scheduled_date > now

NextLive ==
    \/ \E lim \in {1, DefaultLimit} : CronStart(lim)
    \/ CronDispatch
    \/ CronEnd
    \/ pc = "call" /\ Outcome(LiveLogs, PlainResults)
    \/ Waiting /\ Tick

Fairness ==
    /\ WF_vars(\E lim \in {1, DefaultLimit} : CronStart(lim))
    /\ WF_vars(CronDispatch)
    /\ WF_vars(CronEnd)
    /\ WF_vars(pc = "call" /\ Outcome(LiveLogs, PlainResults))
    /\ SF_vars(Waiting /\ Tick)

SpecLive == InitLive /\ [][NextLive]_vars /\ Fairness

-----------------------------------------------------------------------------
(* The claims *)

ActiveStates == {"pending", "processing"}

(* C1: in every reachable state there is at most one entry in pending or *)
(* processing for any (document, service) pair.                          *)
C1_OneActivePerPair ==
    \A i, j \in Ids :
        (/\ i # j
         /\ queue[i].document_id = queue[j].document_id
         /\ queue[i].service_id = queue[j].service_id
         /\ queue[i].state \in ActiveStates)
        => queue[j].state \notin ActiveStates

(* C2: enqueuing a document with a service while an entry for that document *)
(* and service is pending or processing creates no entry for the document.  *)
C2_SecondEnqueueCreatesNothing ==
    \A d \in admission.had : d \notin Range(admission.created)

(* C2 happens: the last step was an enqueue of a document that had a pending *)
(* entry for the same service, and the queue is as long as before.           *)
C2_Witness ==
    /\ admission.had # {}
    /\ admission.created = <<>>
    /\ \E i \in Ids : /\ queue[i].document_id \in admission.had
                      /\ queue[i].service_id = admission.service
                      /\ queue[i].state = "pending"

(* C3: enqueue skips a requested document exactly when an entry in pending or *)
(* processing exists for the same (document, service) pair; an active entry   *)
(* for the document under another service does not prevent the creation.      *)
C3_SkipsExactlyOnSamePair ==
    \A d \in Range(admission.docs) :
        (d \notin Range(admission.created)) <=> (d \in admission.had)

(* C4: every change of an entry's state is one of pending -> processing,     *)
(* processing -> done | failed | pending, pending | failed -> cancelled,     *)
(* failed -> pending.                                                        *)
SpecifiedTransitions ==
    {<<"pending", "processing">>, <<"processing", "done">>, <<"processing", "failed">>,
     <<"processing", "pending">>, <<"pending", "cancelled">>, <<"failed", "cancelled">>,
     <<"failed", "pending">>}

C4_OnlySpecifiedTransitions ==
    [][\A i \in Ids :
          (i \in DOMAIN queue' /\ queue'[i].state # queue[i].state)
          => <<queue[i].state, queue'[i].state>> \in SpecifiedTransitions]_vars

(* C5: once an entry is done or cancelled, no operation changes its state or *)
(* its attempt counter.                                                      *)
C5_DoneAndCancelledAreTerminal ==
    [][\A i \in Ids :
          (i \in DOMAIN queue' /\ queue[i].state \in {"done", "cancelled"})
          => /\ queue'[i].state = queue[i].state
             /\ queue'[i].attempts = queue[i].attempts]_vars

(* C6: a cycle dispatches only entries that were pending with scheduled-for  *)
(* <= now when it selected, and whenever an entry eligible at selection has  *)
(* not been dispatched, every entry the cycle did dispatch has a higher      *)
(* priority, or the same priority and an earlier-or-equal scheduled-for.     *)
WasEligible(i) ==
    /\ i \in DOMAIN snapshot.queue
    /\ snapshot.queue[i].state = "pending"
    /\ snapshot.queue[i].scheduled_date <= snapshot.at

C6_PriorityThenFifo ==
    mode = "cron" =>
        \A k \in DOMAIN dispatched :
            /\ WasEligible(dispatched[k])
            /\ \A e \in DOMAIN snapshot.queue :
                  (WasEligible(e) /\ e \notin Range(dispatched)) =>
                     LET d == snapshot.queue[dispatched[k]]
                         u == snapshot.queue[e]
                     IN \/ d.priority > u.priority
                        \/ /\ d.priority = u.priority
                           /\ d.scheduled_date <= u.scheduled_date

(* C6 happens: a cycle has reached the end of its selection, and left behind *)
(* an eligible entry of the same priority as one it dispatched, scheduled    *)
(* later.                                                                    *)
C6_Witness ==
    /\ mode = "cron"
    /\ pc = "loop"
    /\ items = <<>>
    /\ \E k \in DOMAIN dispatched, e \in DOMAIN snapshot.queue :
          /\ WasEligible(e)
          /\ e \notin Range(dispatched)
          /\ snapshot.queue[dispatched[k]].priority = snapshot.queue[e].priority
          /\ snapshot.queue[dispatched[k]].scheduled_date < snapshot.queue[e].scheduled_date

(* C7: a cycle with batch limit N attempts at most N entries. *)
C7_AtMostLimitAttempts ==
    mode = "cron" => Len(dispatched) <= limit

(* C7 happens: the cycle has attempted as many entries as its limit allows, *)
(* and more entries were eligible.                                          *)
C7_Witness ==
    /\ mode = "cron"
    /\ Len(dispatched) = limit
    /\ Cardinality({e \in DOMAIN snapshot.queue : WasEligible(e)}) > limit

(* C8: while the provider call of a dispatch cycle is in flight, the committed *)
(* entry is in state processing with the incremented attempt counter (so a     *)
(* crash during the call leaves it so).                                        *)
C8_ClaimCommittedBeforeCall ==
    (pc = "call" /\ mode = "cron") =>
        /\ dbQueue[cur].state = "processing"
        /\ dbQueue[cur].attempts = queue[cur].attempts

(* C9: when the provider returns an error on the k-th attempt, the entry       *)
(* becomes failed if k >= max-attempts, and otherwise pending with             *)
(* scheduled-for = now + 5*k minutes.                                          *)
C9_ErrorBackoff ==
    [][ProviderError =>
          LET k == queue[cur].attempts
          IN IF k >= queue[cur].max_attempts
             THEN queue'[cur].state = "failed"
             ELSE /\ queue'[cur].state = "pending"
                  /\ queue'[cur].scheduled_date = now + 5 * k]_vars

(* C9 happens: three provider errors in a row have left an entry with *)
(* max-attempts 3 failed.                                             *)
C9_Witness ==
    /\ Len(logs) = 3
    /\ \A k \in DOMAIN logs : logs[k].error
    /\ \E i \in Ids : /\ queue[i].state = "failed"
                      /\ queue[i].attempts = 3
                      /\ queue[i].max_attempts = 3

(* C10: every attempt that ends (provider success, provider error, exception) *)
(* adds exactly one audit log entry, for the entry's document and service,    *)
(* and audit log entries are never modified or removed.                       *)
C10_OneLogPerAttempt ==
    [][/\ (ProviderError \/ ProviderException \/ \E r \in Results : ProviderSuccess(r))
          => /\ Len(logs') = Len(logs) + 1
             /\ logs'[Len(logs')].document_id = queue[cur].document_id
             /\ logs'[Len(logs')].service_id = queue[cur].service_id
       /\ \A k \in DOMAIN logs : k \in DOMAIN logs' /\ logs'[k] = logs[k]]_vars

(* C11: when the provider returns a result that is not an error, the entry  *)
(* becomes done whether or not the result was applied and whatever its      *)
(* attempt counter is, and the audit log entry of the attempt carries the   *)
(* result's confidence and detected type and the flag apply_classification  *)
(* returned.                                                                *)
C11_SuccessIsDone ==
    [][\A r \in Results :
          ProviderSuccess(r) =>
             /\ queue'[cur].state = "done"
             /\ queue'[cur].log_id = Len(logs')
             /\ logs'[Len(logs')].error = FALSE
             /\ logs'[Len(logs')].confidence = Get(r, "confidence", 0)
             /\ logs'[Len(logs')].document_type = Get(r, "document_type", "")
             /\ logs'[Len(logs')].applied = ApplyClassification(r)]_vars

(* C11 happens: an entry is done after its third attempt (max-attempts 3)  *)
(* returned a result below the threshold, which the log shows not applied. *)
C11_Witness ==
    \E i \in Ids :
        /\ queue[i].state = "done"
        /\ queue[i].attempts = queue[i].max_attempts
        /\ queue[i].log_id \in DOMAIN logs
        /\ logs[queue[i].log_id].applied = FALSE
        /\ logs[queue[i].log_id].error = FALSE
        /\ logs[queue[i].log_id].confidence = 74

C13_CancelStopsDispatch ==
    [][/\ \A i \in Ids :
             (queue[i].state \in {"pending", "failed"} /\ Cancel(i))
             => queue'[i] = [queue[i] EXCEPT !.state = "cancelled"]
       /\ \A i \in Ids :
             queue[i].state = "cancelled"
             => /\ i \notin Range(items')
                /\ cur' # i
                /\ queue'[i].state # "processing"]_vars

(* C13 happens: an entry was cancelled after a failed attempt, its backoff  *)
(* has run out, and a dispatch cycle has selected nothing.                  *)
C13_Witness ==
    /\ mode = "cron"
    /\ pc = "loop"
    /\ items = <<>>
    /\ dispatched = <<>>
    /\ \E i \in Ids :
          /\ queue[i].state = "cancelled"
          /\ queue[i].attempts = 1
          /\ queue[i].scheduled_date = BackoffMinutes
          /\ queue[i].scheduled_date <= now

(* C14: retry on a failed entry makes it pending with attempt counter 0 and *)
(* scheduled-for = now, so that it is eligible at once; retry on an entry   *)
(* in any other state changes nothing.                                      *)
C14_RetryOnlyFromFailed ==
    [][\A i \in Ids :
          Retry(i) =>
             IF queue[i].state = "failed"
             THEN /\ queue'[i].state = "pending"
                  /\ queue'[i].attempts = 0
                  /\ queue'[i].scheduled_date = now
             ELSE queue' = queue]_vars

(* C18: an entry that is failed with attempts >= max-attempts is not        *)
(* attempted and keeps its state and its fields in every step that is not   *)
(* a retry or a cancel of it.                                               *)
C18_FailedStaysFailed ==
    [][\A i \in Ids :
          (/\ queue[i].state = "failed"
           /\ queue[i].attempts >= queue[i].max_attempts
           /\ ~Retry(i)
           /\ ~Cancel(i))
          => /\ queue'[i] = queue[i]
             /\ cur' # i]_vars

(* C15: when an entry was cancelled while its provider call was in flight,  *)
(* the step in which the call returns adds the audit log entry of the       *)
(* attempt and does not put the entry back to pending.                      *)
C15_CancelInFlightKeepsResult ==
    [][(CancelledInFlight /\ pc' # "call" /\ ~Crash) =>
          /\ Len(logs') = Len(logs) + 1
          /\ logs'[Len(logs')].document_id = queue[cur].document_id
          /\ queue'[cur].state \notin {"pending", "processing"}]_vars

(* C16: the provider is never called for an entry by two requests at the    *)
(* same time: while the attempt of a dispatch cycle (or of the Process      *)
(* button) on an entry is in flight, no other request has an attempt on     *)
(* that entry in flight.                                                    *)
C16_OneCallPerEntry ==
    pc = "call" => worker.id # cur

(* C17: enqueue without a service uses the active service with the least id *)
(* (the first inserted) for every entry it creates; when no service is      *)
(* active it fails and creates no entry.                                    *)
C17_DefaultServiceOrError ==
    (admission.docs # <<>> /\ admission.given = NoService) =>
        IF active = {}
        THEN /\ admission.service = NoService
             /\ admission.created = <<>>
        ELSE /\ admission.service \in active
             /\ \A t \in active : admission.service <= t
             /\ \A k \in Ids :
                   k > Len(queue) - Len(admission.created)
                   => queue[k].service_id = admission.service

(* C17 happens: with service 1 archived, an enqueue without a service has *)
(* created entries for service 2.                                         *)
C17_Witness ==
    /\ active = {2}
    /\ admission.given = NoService
    /\ Len(admission.created) = 2
    /\ \A k \in Ids : queue[k].service_id = 2

(* C19: the dispatch cycle returns the number of entries it processed: 0    *)
(* when nothing was due, at most the batch limit otherwise.                 *)
C19_ReturnsProcessedCount ==
    [][CronEnd =>
          /\ returned' = <<Len(dispatched)>>
          /\ Len(dispatched) <= limit]_vars

(* C20: the stored retention deadline is, in every state, what              *)
(* _compute_retention_date gives for the document's date and policy as they *)
(* are; and after every change of the document's date, of its policy, or of *)
(* the policy's years, months or trigger (the policy detached or deleted    *)
(* included) the stored due flag is what _compute_retention_action_due      *)
(* gives for that deadline on the current day.                              *)
RetentionInputs == <<document.document_date, document.retention_policy_id, policy>>

C20_StoredRetentionIsCurrent ==
    [][/\ document'.retention_date = ComputeRetentionDate(document', policy')
       /\ RetentionInputs' # RetentionInputs
          => document'.retention_action_due =
                ComputeRetentionActionDue(document'.retention_date, today')]_vars

(* C20 happens: after the policy's months and trigger were written, and a   *)
(* day has passed, the document has a stored deadline at the end of a       *)
(* month and is due.                                                        *)
C20_Witness ==
    /\ document.retention_policy_id
    /\ policy.retention_trigger = "fiscal_year_end"
    /\ policy.retention_years = 1
    /\ policy.retention_months = 1
    /\ document.retention_date = Date(2021, 1, 31)
    /\ document.retention_action_due
    /\ today = Date(2021, 1, 31)

(* C21: the resolver gives no deadline and a false due flag when the       *)
(* document has no policy, when the trigger is the document date or the    *)
(* fiscal-year end and the document has no date, and when the trigger is   *)
(* expiry or last access (for which no date is supplied).                  *)
C21_NoDeadlineWithoutReference ==
    (\/ ~document.retention_policy_id
     \/ /\ policy.retention_trigger \in {"document_date", "fiscal_year_end"}
        /\ document.document_date = NoDate
     \/ policy.retention_trigger \in {"expiry", "last_access"})
    => document.retention_date = NoDate /\ ~document.retention_action_due

(* C21 happens: a policy triggered by the fiscal-year end was attached to  *)
(* a document without a date, on a day after the period counted from the   *)
(* document's creation ended.                                              *)
C21_Witness ==
    /\ document.retention_policy_id
    /\ policy.retention_trigger = "fiscal_year_end"
    /\ policy.retention_years = 1
    /\ document.document_date = NoDate
    /\ today = Date(2025, 6, 1)
    /\ document.retention_date = NoDate
    /\ ~document.retention_action_due

(* C22: with its trigger date present, the deadline is the trigger date    *)
(* plus the policy's years and months by calendar addition: the month      *)
(* count carries into the year and the day is cut to the last day of the   *)
(* month reached (2020-01-31 plus one month is 2020-02-29).  The trigger   *)
(* date is the document date, the 31st of December of the document date's  *)
(* year, or the day of creation.                                           *)
C22_DeadlineIsCalendarAddition ==
    LET trigger == policy.retention_trigger
        from == IF trigger = "creation" THEN document.create_date
                ELSE IF trigger = "document_date" THEN document.document_date
                ELSE [y |-> document.document_date.y, m |-> 12, d |-> 31]
        count == from.y * 12 + (from.m - 1)
                    + policy.retention_years * 12 + policy.retention_months
        year == count \div 12
        month == (count % 12) + 1
        last == CASE month \in {4, 6, 9, 11} -> 30
                  [] month = 2 /\ year % 4 = 0 /\ (year % 100 # 0 \/ year % 400 = 0) -> 29
                  [] month = 2 /\ ~(year % 4 = 0 /\ (year % 100 # 0 \/ year % 400 = 0)) -> 28
                  [] OTHER -> 31
    IN (/\ document.retention_policy_id
        /\ \/ trigger = "creation"
           \/ trigger \in {"document_date", "fiscal_year_end"}
              /\ document.document_date # NoDate)
       => document.retention_date =
             [y |-> year, m |-> month, d |-> IF from.d > last THEN last ELSE from.d]

(* C22 happens: one month from the document date 2020-01-31 gave the      *)
(* deadline 2020-02-29.                                                   *)
C22_Witness ==
    /\ document.retention_policy_id
    /\ policy.retention_trigger = "document_date"
    /\ policy.retention_years = 0
    /\ policy.retention_months = 1
    /\ document.document_date = Date(2020, 1, 31)
    /\ document.retention_date = Date(2020, 2, 29)

(* C23: the due flag is true exactly when there is a deadline and it is on *)
(* or before the day of evaluation: true on the deadline's day, false the  *)
(* day before (document date 2015-06-01 and ten years: due on 2025-06-01,  *)
(* not due on 2025-05-31).                                                 *)
C23_DueFromDeadlineDay ==
    LET deadline == document.retention_date
    IN /\ document.retention_action_due
            <=> /\ deadline # NoDate
                /\ \/ deadline = today
                   \/ deadline.y < today.y
                   \/ deadline.y = today.y /\ deadline.m < today.m
                   \/ deadline.y = today.y /\ deadline.m = today.m /\ deadline.d < today.d
       /\ (deadline = Date(2025, 6, 1) /\ today = Date(2025, 5, 31))
             => ~document.retention_action_due

(* C23 happens: the document dated 2015-06-01 under a policy of ten years *)
(* is due when evaluated on 2025-06-01.                                   *)
C23_Witness ==
    /\ document.retention_policy_id
    /\ policy.retention_trigger = "document_date"
    /\ policy.retention_years = 10
    /\ policy.retention_months = 0
    /\ document.document_date = Date(2015, 6, 1)
    /\ document.retention_date = Date(2025, 6, 1)
    /\ today = Date(2025, 6, 1)
    /\ document.retention_action_due

(* C23, the day before: the same document evaluated on 2025-05-31 *)
C23_DayBefore ==
    /\ document.retention_date = Date(2025, 6, 1)
    /\ today = Date(2025, 5, 31)
    /\ ~document.retention_action_due

(* C24: a save of a policy, by create or by edit, whose years * 12 +       *)
(* months is zero or less is refused with a validation error and leaves    *)
(* what is stored as it was; a save whose period is positive stores the    *)
(* period as given, so nothing is clamped; and no stored policy has a      *)
(* period of zero or less.                                                 *)
C24_NoPolicyWithoutPeriod ==
    [][/\ policy' # NoPolicy
          => policy'.retention_years * 12 + policy'.retention_months > 0
       /\ \A years \in SavedYears, months \in SavedMonths :
             CreatePolicyWith(years, months)
             => IF years * 12 + months <= 0
                THEN policy' = NoPolicy /\ rejected' # NoSave
                ELSE /\ policy'.retention_years = years
                     /\ policy'.retention_months = months
                     /\ rejected' = NoSave
       /\ \A value \in SavedYears :
             WritePolicy("retention_years", value)
             => IF value * 12 + policy.retention_months <= 0
                THEN policy' = policy /\ document' = document /\ rejected' # NoSave
                ELSE policy' = [policy EXCEPT !.retention_years = value]
                     /\ rejected' = NoSave
       /\ \A value \in SavedMonths :
             WritePolicy("retention_months", value)
             => IF policy.retention_years * 12 + value <= 0
                THEN policy' = policy /\ document' = document /\ rejected' # NoSave
                ELSE policy' = [policy EXCEPT !.retention_months = value]
                     /\ rejected' = NoSave]_vars

(* C24 happens: the policy of one year was saved with its years set to    *)
(* zero, the save was refused and the policy still has one year.          *)
C24_Witness ==
    /\ rejected # NoSave
    /\ rejected.retention_years = 0
    /\ rejected.retention_months = 0
    /\ policy # NoPolicy
    /\ policy.retention_years = 1
    /\ policy.retention_months = 0

(* C24 on create: a policy created with a period below zero is refused *)
C24_CreateRefused ==
    /\ rejected # NoSave
    /\ rejected.retention_years * 12 + rejected.retention_months < 0
    /\ policy = NoPolicy

(* C25: apply_classification returns false and leaves every field of the   *)
(* document as it was when the result has an error marker or a confidence  *)
(* below the service's threshold; with the confidence equal to the         *)
(* threshold (and no error marker) it writes the document, the extraction  *)
(* confidence at least, and returns true.                                  *)
C25_ThresholdIsInclusive ==
    applyCall # NoApply =>
        LET result == applyCall.classification
            confidence == IF "confidence" \in DOMAIN result THEN result.confidence ELSE 0
            threshold == applyCall.service.confidence_threshold
        IN /\ ("error" \in DOMAIN result \/ confidence < threshold)
                => ~applyCall.returned /\ document = applyCall.before
           /\ ("error" \notin DOMAIN result /\ confidence = threshold)
                => applyCall.returned /\ document.extraction_confidence = confidence

(* C25 happens: a result at the threshold was applied to a new document *)
C25_Witness ==
    /\ applyCall # NoApply
    /\ applyCall.classification = FullAt
    /\ applyCall.service.confidence_threshold = 75
    /\ applyCall.before = NewDocument
    /\ applyCall.returned
    /\ document.extraction_confidence = 75
    /\ document.is_invoice

(* C25, below: a full result one hundredth below the threshold was refused *)
(* on a document that an earlier result had written                        *)
C25_Below ==
    /\ applyCall # NoApply
    /\ applyCall.classification = FullBelow
    /\ ~applyCall.returned
    /\ document = applyCall.before
    /\ document.extraction_confidence = 90

C27_FailedKeepsSchedule ==
    [][((ProviderError \/ ProviderException) /\ queue'[cur].state = "failed")
          => queue'[cur].scheduled_date = queue[cur].scheduled_date]_vars

(* C28: an entry that is failed has attempts >= max_attempts; an error or  *)
(* an exception on an attempt that leaves attempts below max_attempts      *)
(* makes the entry pending with a scheduled_date later than now.           *)
C28_FailedOnlyWhenExhausted ==
    [][/\ \A i \in DOMAIN queue' :
             queue'[i].state = "failed" => queue'[i].attempts >= queue'[i].max_attempts
       /\ \A i \in DOMAIN dbQueue' :
             dbQueue'[i].state = "failed" => dbQueue'[i].attempts >= dbQueue'[i].max_attempts
       /\ ((ProviderError \/ ProviderException)
              /\ queue[cur].attempts < queue[cur].max_attempts)
            => /\ queue'[cur].state = "pending"
               /\ queue'[cur].scheduled_date > now]_vars

(* C28 happens: the second attempt ended with an error, and the entry is  *)
(* pending again, ten minutes from now; and: the third one left it failed *)
C28_Witness ==
    /\ Len(queue) = 1
    /\ queue[1].state = "pending"
    /\ queue[1].attempts = 2
    /\ queue[1].error_message
    /\ queue[1].scheduled_date = now + 2 * BackoffMinutes

C28_Exhausted ==
    /\ Len(queue) = 1
    /\ queue[1].state = "failed"
    /\ queue[1].attempts = queue[1].max_attempts

(* C29: an attempt that the process's death or a rollback cuts short still *)
(* counts against max_attempts: the entry keeps the count that the attempt *)
(* raised, so that the provider is called at most max_attempts times       *)
(* between two retries.                                                    *)
C29_CutAttemptCounts ==
    [][((Rollback \/ Crash) /\ pc = "call")
          => queue'[cur].attempts = queue[cur].attempts]_vars

(* C30: after an attempt ends, by a result, by a provider error or by an   *)
(* exception, the entry's log_id is the log entry that this attempt        *)
(* created.                                                                *)
C30_LogOfThisAttempt ==
    [][(ProviderError \/ ProviderException \/ \E result \in Results : ProviderSuccess(result))
          => /\ Len(logs') = Len(logs) + 1
             /\ queue'[cur].log_id = Len(logs')]_vars

(* C31: with auto_tag set, an applied result attaches the tags found for   *)
(* the first five of its suggested names that match a tag: names that      *)
(* match nothing are dropped before the limit of five is counted, so a     *)
(* matching name in sixth place is attached when fewer than five names     *)
(* before it matched.                                                      *)
C31_LimitCountsMatchesOnly ==
    (/\ applyCall # NoApply
     /\ applyCall.returned
     /\ applyCall.service.auto_tag
     /\ "suggested_tags" \in DOMAIN applyCall.classification)
    => LET names == applyCall.classification.suggested_tags
           matching == {k \in DOMAIN names : \E i \in DOMAIN tags : ILike(tags[i], names[k])}
           kept == {k \in matching : Cardinality({j \in matching : j <= k}) <= 5}
       IN document.tag_ids = applyCall.before.tag_ids \cup {SearchTag(names[k]) : k \in kept}

(* C32: in every state, also after action_process was called on demand on *)
(* a pending or a failed entry, an entry's attempts is between 0 and its   *)
(* max_attempts.                                                           *)
C32_AttemptsWithinMax ==
    \A i \in Ids : queue[i].attempts >= 0 /\ queue[i].attempts <= queue[i].max_attempts

(* C33: one call of add_documents_to_queue whose list names a document    *)
(* more than once creates at most one entry for that document.            *)
C33_OneEntryPerListedDocument ==
    \A j, k \in DOMAIN admission.created :
        j # k => admission.created[j] # admission.created[k]

(* C34: with no enqueue and no operator action, under dispatch cycles     *)
(* that keep coming and time that moves on, every pending entry is done   *)
(* or failed at some later time, and no entry stays in processing for     *)
(* ever.                                                                  *)
C34_EveryEntryEnds ==
    \A i \in 1..2 :
        /\ (queue[i].state = "pending") ~> (queue[i].state \in {"done", "failed"})
        /\ []<>(queue[i].state # "processing")

(* C35: in every state the stored due flag is true exactly when there is a *)
(* stored deadline on or before the current date; so when the date moves   *)
(* to the deadline or past it, with no change of the document or of its    *)
(* policy, the stored flag becomes true.                                   *)
C35_StoredDueFollowsCalendar ==
    document.retention_action_due
        <=> (document.retention_date # NoDate /\ DateLE(document.retention_date, today))

====
